---- MODULE Spec2Model ----
(***************************************************************************)
(* spanviz (src/spanviz/main.py): rendering a text with labelled spans as  *)
(* HTML or Markdown.  Strings are sequences of one-character strings, so   *)
(* that slicing, joining and parsing are computed, not assumed.            *)
(***************************************************************************)
EXTENDS Integers, Sequences, FiniteSets, TLC

VARIABLES
    text,              \* the text of the last call
    spans,             \* the caller's span list after the last call (standardize_spans writes into it)
    call,              \* the last call: entry point and options
    canon,             \* list(standardize_spans(spans)) of the last call
    segments,          \* the (start, end, labels, slice) of each boundary pair of the last call
    result,            \* what the last call returned or raised
    default_colormap,  \* the default argument colormap={} of render_spans, one object for the process
    used_colormap,     \* the colour map the last call worked on, as the call left it
    ncalls,            \* calls made so far
    hexcolors,         \* arguments of the last colorblend call
    blended            \* its result

vars == <<text, spans, call, canon, segments, result, default_colormap,
          used_colormap, ncalls, hexcolors, blended>>

(***************************************************************************)
(* Bounds of the model.                                                    *)
(***************************************************************************)
MaxOffset == 3
MaxSpans == 2
MaxCalls == 3
MaxWide == 11
MaxColors == 6

(***************************************************************************)
(* Strings.                                                                *)
(***************************************************************************)
RECURSIVE Concat(_)
Concat(ss) == IF ss = <<>> THEN <<>> ELSE Head(ss) \o Concat(Tail(ss))

RECURSIVE Join(_, _)
Join(sep, ss) ==
    IF ss = <<>> THEN <<>>
    ELSE IF Len(ss) = 1 THEN ss[1]
    ELSE ss[1] \o sep \o Join(sep, Tail(ss))

Min(a, b) == IF a < b THEN a ELSE b
Max(a, b) == IF a > b THEN a ELSE b

\* text[start:end] of Python: negative indices count from the end, all are clamped.
Slice(s, start, end) ==
    LET n == Len(s)
        lo == IF start < 0 THEN Max(start + n, 0) ELSE Min(start, n)
        hi == IF end < 0 THEN Max(end + n, 0) ELSE Min(end, n)
    IN  IF lo < hi THEN SubSeq(s, lo + 1, hi) ELSE <<>>

(***************************************************************************)
(* The palette.                                                            *)
(***************************************************************************)
colors == <<
    <<"#", "1", "f", "7", "7", "b", "4">>,
    <<"#", "f", "f", "7", "f", "0", "e">>,
    <<"#", "2", "c", "a", "0", "2", "c">>,
    <<"#", "d", "6", "2", "7", "2", "8">>,
    <<"#", "9", "4", "6", "7", "b", "d">>,
    <<"#", "8", "c", "5", "6", "4", "b">>,
    <<"#", "e", "3", "7", "7", "c", "2">>,
    <<"#", "7", "f", "7", "f", "7", "f">>,
    <<"#", "b", "c", "b", "d", "2", "2">>,
    <<"#", "1", "7", "b", "e", "c", "f">> >>

(***************************************************************************)
(* Binary64 arithmetic on the non-negative values colorblend computes.     *)
(* A value is a natural number of units of 2^-60, held as four limbs of 20 *)
(* bits, least significant first; every binary64 value between 2^-7 and    *)
(* 2^9 is a whole number of such units, and rounding drops bits of the     *)
(* lowest limb only.                                                       *)
(***************************************************************************)
Limb == 2^20

\* x with carry c added into limb 1, a limb at a time
Carry(x, c) ==
    LET v1 == x[1] + c
        v2 == x[2] + (v1 \div Limb)
        v3 == x[3] + (v2 \div Limb)
        v4 == x[4] + (v3 \div Limb)
    IN  <<v1 % Limb, v2 % Limb, v3 % Limb, v4>>

FloatOfInt(n) == <<0, 0, 0, n>>
IntOfFloat(x) == x[4]
Half == <<0, 0, 2^19, 0>>

AddExact(x, y) == Carry(<<x[1] + y[1], x[2] + y[2], x[3] + y[3], x[4] + y[4]>>, 0)
MulExact(x, v) == Carry(<<x[1] * v, x[2] * v, x[3] * v, x[4] * v>>, 0)

Pow2 == [b \in 0..20 |-> 2^b]

\* the number of bits of a limb
BitsBelow1024 == [n \in 0..1023 |-> Cardinality({b \in 0..9 : 2^b <= n})]
Bits(n) == IF n < 1024 THEN BitsBelow1024[n] ELSE 10 + BitsBelow1024[n \div 1024]

BitLen(x) ==
    IF x[4] # 0 THEN 60 + Bits(x[4])
    ELSE IF x[3] # 0 THEN 40 + Bits(x[3])
    ELSE IF x[2] # 0 THEN 20 + Bits(x[2])
    ELSE Bits(x[1])

\* Round to 53 significant bits, ties to even; sticky: a non-zero part below the last unit.
Round53(x, sticky) ==
    LET d == BitLen(x) - 53
    IN  IF d <= 0 THEN x
        ELSE LET low   == x[1] % Pow2[d]
                 half  == Pow2[d - 1]
                 odd   == (x[1] \div Pow2[d]) % 2 = 1
                 up    == low > half \/ (low = half /\ (sticky \/ odd))
                 trunc == <<x[1] - low, x[2], x[3], x[4]>>
             IN  IF up THEN Carry(trunc, Pow2[d]) ELSE trunc

\* 1 / n
Reciprocal(n) ==
    LET q4 == 1 \div n
        r4 == 1 % n
        q3 == (r4 * Limb) \div n
        r3 == (r4 * Limb) % n
        q2 == (r3 * Limb) \div n
        r2 == (r3 * Limb) % n
        q1 == (r2 * Limb) \div n
        r1 == (r2 * Limb) % n
    IN  Round53(<<q1, q2, q3, q4>>, r1 # 0)

FloatMul(a, v) == Round53(MulExact(a, v), FALSE)
FloatAdd(x, y) == Round53(AddExact(x, y), FALSE)

\* x < y
FloatLess(x, y) ==
    LET i == CHOOSE k \in 0..4 : (k = 0 \/ x[k] # y[k]) /\ \A j \in (k + 1)..4 : x[j] = y[j]
    IN  i # 0 /\ x[i] < y[i]

(***************************************************************************)
(* The colour blender.                                                     *)
(***************************************************************************)
HexDigits == <<"0", "1", "2", "3", "4", "5", "6", "7", "8", "9",
               "a", "b", "c", "d", "e", "f">>
UpperHex == <<"0", "1", "2", "3", "4", "5", "6", "7", "8", "9",
              "A", "B", "C", "D", "E", "F">>

\* int(c, 16) of one digit
HexValues ==
    [c \in {HexDigits[i] : i \in 1..16} \cup {UpperHex[i] : i \in 1..16} |->
        CHOOSE v \in 0..15 : HexDigits[v + 1] = c \/ UpperHex[v + 1] = c]
HexVal(c) == HexValues[c]

hex_to_rgb(hex) ==
    LET clean_hex == SelectSeq(hex, LAMBDA c : c # "#")
    IN  [i \in 1..3 |-> 16 * HexVal(clean_hex[2 * i - 1]) + HexVal(clean_hex[2 * i])]

\* sum(alpha * rgb[channel] for alpha, rgb in zip(alphas, rgb_colors)), left to right
RECURSIVE WeightedSum(_, _, _, _, _)
WeightedSum(alphas, rgb_colors, channel, k, acc) ==
    IF k > Len(rgb_colors) THEN acc
    ELSE LET next == FloatAdd(acc, FloatMul(alphas[k], rgb_colors[k][channel]))
         IN  IF next = acc THEN WeightedSum(alphas, rgb_colors, channel, k + 1, acc)
             ELSE WeightedSum(alphas, rgb_colors, channel, k + 1, next)

blend_channel(alphas, rgb_colors, channel) ==
    LET blended_channel == WeightedSum(alphas, rgb_colors, channel, 1, FloatOfInt(0))
        clamped == IF FloatLess(FloatOfInt(255), blended_channel)
                   THEN FloatOfInt(255) ELSE blended_channel
    IN  IntOfFloat(FloatAdd(clamped, Half))

rgb_to_hex(rgb) ==
    <<"#">> \o Concat([i \in 1..3 |->
        IF rgb[i] < 16 THEN <<"0", HexDigits[rgb[i] + 1]>>
        ELSE <<HexDigits[(rgb[i] \div 16) + 1], HexDigits[(rgb[i] % 16) + 1]>>])

colorblend(hexs) ==
    CHOOSE hex \in {rgb_to_hex([c \in 1..3 |-> blend_channel(alphas, rgb_colors, c)]) :
                      alphas \in {[i \in 1..Len(hexs) |-> Reciprocal(Len(hexs))]},
                      rgb_colors \in {[i \in 1..Len(hexs) |-> hex_to_rgb(hexs[i])]}} : TRUE

(***************************************************************************)
(* Python values: a span list holds dicts, lists, strings and numbers.     *)
(* A dict is a function from its keys; start and end hold integers, label  *)
(* holds a PStr or a PInt, subspans holds a PList.  Each type keeps its    *)
(* value in a field of its own.                                            *)
(***************************************************************************)
PInt(n) == [ty |-> "int", n |-> n]
PStr(chars) == [ty |-> "str", s |-> chars]
PList(items) == [ty |-> "list", items |-> items]
PDict(d) == [ty |-> "dict", d |-> d]

Digits == <<"0", "1", "2", "3", "4", "5", "6", "7", "8", "9">>

RECURSIVE Decimal(_)
Decimal(n) == IF n < 10 THEN <<Digits[n + 1]>>
              ELSE Decimal(n \div 10) \o <<Digits[(n % 10) + 1]>>

\* str(x) of a string or an integer
Str(x) ==
    IF x.ty = "str" THEN x
    ELSE IF x.n < 0 THEN PStr(<<"-">> \o Decimal(0 - x.n))
    ELSE PStr(Decimal(x.n))

\* d.get(key, default)
Get(d, key, default) == IF key \in DOMAIN d THEN d[key] ELSE default

\* {**over, **d}: the keys of both, d's value where both have one
Merge(over, d) ==
    [k \in DOMAIN over \cup DOMAIN d |-> IF k \in DOMAIN d THEN d[k] ELSE over[k]]

Raise(err) == [kind |-> "raise", error |-> err]
Return(value) == [kind |-> "return", value |-> value]

\* needle in hay, for strings
IsSubstring(needle, hay) ==
    \E i \in 0..(Len(hay) - Len(needle)) : SubSeq(hay, i + 1, i + Len(needle)) = needle

StartKey == <<"s", "t", "a", "r", "t">>

\* 'start' in span
HasStart(span) ==
    CASE span.ty = "dict" -> "start" \in DOMAIN span.d
      [] span.ty = "list" -> \E i \in 1..Len(span.items) : span.items[i] = PStr(StartKey)
      [] span.ty = "str"  -> IsSubstring(StartKey, span.s)

\* the elements a for loop over x visits
Elements(x) ==
    CASE x.ty = "list" -> x.items
      [] x.ty = "str"  -> [i \in 1..Len(x.s) |-> PStr(<<x.s[i]>>)]

\* {'label': str(subspan.get('label', label)), **subspan}: the keys of subspan are written last
SubspanDict(subspan, label) ==
    Merge([label |-> Str(Get(subspan.d, "label", label))], subspan.d)

\* Subspans, passing over an element that is not a dict.
RECURSIVE SubspansOfDicts(_, _, _, _)
SubspansOfDicts(subs, label, k, out) ==
    IF k > Len(subs) THEN Return(out)
    ELSE IF subs[k].ty # "dict" THEN SubspansOfDicts(subs, label, k + 1, out)
    ELSE SubspansOfDicts(subs, label, k + 1, Append(out, SubspanDict(subs[k], label)))

\* the spans one group yields, or the error its first non-dict element raises
RECURSIVE Subspans(_, _, _, _)
Subspans(subs, label, k, out) ==
    IF k > Len(subs) THEN Return(out)
    ELSE IF subs[k].ty # "dict" THEN Raise("AttributeError")
    ELSE Subspans(subs, label, k + 1, Append(out, SubspanDict(subs[k], label)))

\* One turn of the loop of standardize_spans on element n (counted from 0): what it
\* yields, and the element as the turn leaves it.
StandardizeOne(n, span) ==
    IF span.ty = "int" THEN [res |-> Raise("TypeError"), span |-> span]
    ELSE IF HasStart(span) THEN
        IF span.ty # "dict" THEN [res |-> Raise("TypeError"), span |-> span]
        ELSE LET d == Merge(span.d, [label |-> Str(Get(span.d, "label", PInt(n)))])
             IN  [res |-> Return(<<d>>), span |-> PDict(d)]
    ELSE IF span.ty = "dict" THEN
        IF "subspans" \notin DOMAIN span.d THEN [res |-> Raise("KeyError"), span |-> span]
        ELSE IF span.d.subspans.ty \notin {"list", "str"}
             THEN [res |-> Raise("TypeError"), span |-> span]
        ELSE [res |-> Subspans(Elements(span.d.subspans),
                               Str(Get(span.d, "label", PInt(n))), 1, <<>>),
              span |-> span]
    ELSE [res |-> Subspans(Elements(span), PInt(n), 1, <<>>), span |-> span]

\* list(standardize_spans(spans)): the canonical spans or the first error, and the
\* caller's list as it is left.
RECURSIVE Standardize(_, _, _)
Standardize(raw, k, out) ==
    IF k > Len(raw) THEN [res |-> Return(out), spans |-> raw]
    ELSE LET one == StandardizeOne(k - 1, raw[k])
             left == [raw EXCEPT ![k] = one.span]
         IN  IF one.res.kind = "raise" THEN [res |-> one.res, spans |-> left]
             ELSE Standardize(left, k + 1, out \o one.res.value)

standardize_spans(raw) == Standardize(raw, 1, <<>>)

(***************************************************************************)
(* The colour allocator.  A colour map is a dict: its entries in insertion *)
(* order.                                                                  *)
(***************************************************************************)
Keys(colormap) == {colormap[i].key : i \in 1..Len(colormap)}
Lookup(colormap, key) ==
    colormap[CHOOSE i \in 1..Len(colormap) : colormap[i].key = key].value

\* Characters in code point order.
CodePoints == <<"\"", "#", "*", ",", "-", "0", "1", "2", "3", "4", "5", "6", "7", "8",
                "9", "<", ">", "A", "B", "C", "X", "\\", "_", "a", "b", "c", "d", "e">>
Ordinals == [c \in {CodePoints[i] : i \in 1..Len(CodePoints)} |->
                CHOOSE i \in 1..Len(CodePoints) : CodePoints[i] = c]
Ord(c) == Ordinals[c]

\* a < b for strings
RECURSIVE StrLess(_, _)
StrLess(a, b) ==
    IF b = <<>> THEN FALSE
    ELSE IF a = <<>> THEN TRUE
    ELSE IF Head(a) # Head(b) THEN Ord(Head(a)) < Ord(Head(b))
    ELSE StrLess(Tail(a), Tail(b))

\* a < b for labels of one type
LabelLess(a, b) == IF a.ty = "int" THEN a.n < b.n ELSE StrLess(a.s, b.s)

RECURSIVE SortLabels(_)
SortLabels(labs) ==
    IF labs = {} THEN <<>>
    ELSE LET least == CHOOSE x \in labs : \A y \in labs \ {x} : LabelLess(x, y)
         IN  <<least>> \o SortLabels(labs \ {least})

LabelsOf(canonical) == {canonical[i].label : i \in 1..Len(canonical)}

\* sorted(set(...)): comparing a string with a number raises
Sortable(labs) == \A x, y \in labs : x.ty = y.ty

\* Allocate, the colour taken one place further along the palette.
RECURSIVE AllocateOneOff(_, _, _)
AllocateOneOff(colormap, labs, k) ==
    IF k > Len(labs) THEN colormap
    ELSE IF labs[k] \in Keys(colormap) THEN AllocateOneOff(colormap, labs, k + 1)
    ELSE AllocateOneOff(Append(colormap,
                               [key |-> labs[k],
                                value |-> colors[((Len(colormap) + 1) % Len(colors)) + 1]]),
                        labs, k + 1)

\* Allocate, the colour taken by the place of the label among the labels of the call.
RECURSIVE AllocateByPlace(_, _, _)
AllocateByPlace(colormap, labs, k) ==
    IF k > Len(labs) THEN colormap
    ELSE IF labs[k] \in Keys(colormap) THEN AllocateByPlace(colormap, labs, k + 1)
    ELSE AllocateByPlace(Append(colormap,
                                [key |-> labs[k],
                                 value |-> colors[((k - 1) % Len(colors)) + 1]]),
                         labs, k + 1)

\* Allocate without the test for a label the map holds: the label is given a colour again.
RECURSIVE AllocateAgain(_, _, _)
AllocateAgain(colormap, labs, k) ==
    IF k > Len(labs) THEN colormap
    ELSE IF labs[k] \in Keys(colormap)
    THEN AllocateAgain([i \in 1..Len(colormap) |->
                          IF colormap[i].key = labs[k]
                          THEN [key |-> labs[k],
                                value |-> colors[(Len(colormap) % Len(colors)) + 1]]
                          ELSE colormap[i]],
                       labs, k + 1)
    ELSE AllocateAgain(Append(colormap,
                              [key |-> labs[k],
                               value |-> colors[(Len(colormap) % Len(colors)) + 1]]),
                       labs, k + 1)

RECURSIVE Allocate(_, _, _)
Allocate(colormap, labs, k) ==
    IF k > Len(labs) THEN colormap
    ELSE IF labs[k] \in Keys(colormap) THEN Allocate(colormap, labs, k + 1)
    ELSE Allocate(Append(colormap,
                         [key |-> labs[k],
                          value |-> colors[(Len(colormap) % Len(colors)) + 1]]),
                  labs, k + 1)

\* The labels in the order the spans bring them, without the sort.
RECURSIVE FirstSeen(_, _, _)
FirstSeen(canonical, k, out) ==
    IF k > Len(canonical) THEN out
    ELSE IF \E i \in 1..Len(out) : out[i] = canonical[k].label
    THEN FirstSeen(canonical, k + 1, out)
    ELSE FirstSeen(canonical, k + 1, Append(out, canonical[k].label))
LabelOrderAsGiven(canonical) == FirstSeen(canonical, 1, <<>>)

LabelOrder(canonical) == SortLabels(LabelsOf(canonical))

\* update_colormap(colormap, spans): the map as the call leaves it, or the error
update_colormap(colormap, canonical) ==
    IF ~Sortable(LabelsOf(canonical)) THEN Raise("TypeError")
    ELSE Return(Allocate(colormap, LabelOrder(canonical), 1))


(***************************************************************************)
(* The renderer.                                                           *)
(***************************************************************************)
RECURSIVE SortInts(_)
SortInts(ints) ==
    IF ints = {} THEN <<>>
    ELSE LET least == CHOOSE x \in ints : \A y \in ints : x <= y
         IN  <<least>> \o SortInts(ints \ {least})

\* The boundaries without the two ends of the text.
BoundariesOfSpans(txt, canonical) ==
    SortInts({canonical[i].start : i \in 1..Len(canonical)}
                \cup {canonical[i].end : i \in 1..Len(canonical)})

\* The boundaries without the ends of the spans.
BoundariesOfStarts(txt, canonical) ==
    SortInts({0, Len(txt)} \cup {canonical[i].start : i \in 1..Len(canonical)})

\* starts_and_ends, sorted
Boundaries(txt, canonical) ==
    SortInts({0, Len(txt)} \cup {canonical[i].start : i \in 1..Len(canonical)}
                           \cup {canonical[i].end : i \in 1..Len(canonical)})

\* labels_for_span
LabelsFor(canonical, start, end) ==
    {canonical[i].label : i \in {j \in 1..Len(canonical) :
        canonical[j].start <= start /\ canonical[j].end >= end}}

\* zip(starts_and_ends, starts_and_ends[1:]) with the labels and the slice of each pair
Segments(txt, canonical) ==
    LET b == Boundaries(txt, canonical)
    IN  [i \in 1..(Len(b) - 1) |->
            [start |-> b[i], end |-> b[i + 1],
             labels |-> LabelsFor(canonical, b[i], b[i + 1]),
             slice |-> Slice(txt, b[i], b[i + 1])]]

\* The orders in which a set of labels may be iterated: a set of strings has no
\* order the program fixes.  All orders for up to three labels, two beyond.
Orders(labs) ==
    IF Cardinality(labs) <= 3
    THEN {o \in [1..Cardinality(labs) -> labs] : \A i, j \in DOMAIN o : i # j => o[i] # o[j]}
    ELSE LET up == SortLabels(labs)
         IN  {up, [i \in 1..Len(up) |-> up[Len(up) + 1 - i]]}

Iterate(labs, order) == SelectSeq(order, LAMBDA l : l \in labs)

MarkOpen ==
    <<"<", "m", "a", "r", "k", " ", "s", "t", "y", "l", "e", "=", "\"", "b", "a", "c",
      "k", "g", "r", "o", "u", "n", "d", "-", "c", "o", "l", "o", "r", ":">>
Alpha ==
    <<"6", "6", "\"">>
TitleOpen ==
    <<" ", "t", "i", "t", "l", "e", "=", "\"">>
BlendClose ==
    <<";", ">">>
RainbowClose ==
    <<"\"", ";", ">">>
MarkClose ==
    <<"<", "/", "m", "a", "r", "k", ">">>
MdOpen ==
    <<"\\", "*", "*", "*", "*">>
MdClose ==
    <<"*", "*", "*", "\\", "*">>

\* the mark elements of one segment, one per character, cycling through the colours
RainbowChars(slice, colors_for_span, tooltip) ==
    Concat([i \in 1..Len(slice) |->
        MarkOpen \o colors_for_span[((i - 1) % Len(colors_for_span)) + 1] \o Alpha
        \o tooltip \o RainbowClose \o <<slice[i]>> \o MarkClose])

\* what one turn of the loop over the segments appends to snippets, or raises
Snippet(seg, colormap, order, rainbow, to_markdown, with_labels) ==
    IF seg.labels = {} THEN Return(seg.slice)
    ELSE LET labels_for_span == Iterate(seg.labels, order)
             colors_for_span == [i \in 1..Len(labels_for_span) |->
                                    Lookup(colormap, labels_for_span[i])]
         IN  IF \E l \in seg.labels : l.ty # "str" THEN Raise("TypeError")
             ELSE LET hovertext == Join(<<",">>, [i \in 1..Len(labels_for_span) |->
                                                     labels_for_span[i].s])
                  IN  IF to_markdown THEN
                          LET label_str == IF with_labels THEN <<"_">> \o hovertext ELSE <<>>
                          IN  Return(MdOpen \o seg.slice \o label_str \o MdClose)
                      ELSE
                          LET tooltip == IF with_labels
                                         THEN TitleOpen \o hovertext \o <<"\"">>
                                         ELSE <<>>
                          IN  IF ~rainbow
                              THEN Return(MarkOpen \o colorblend(colors_for_span) \o Alpha
                                          \o tooltip \o BlendClose \o seg.slice \o MarkClose)
                              ELSE Return(RainbowChars(seg.slice, colors_for_span, tooltip))

\* ''.join(snippets), or the first error of the loop
Joined(each) ==
    IF \E i \in 1..Len(each) : each[i].kind = "raise"
    THEN each[CHOOSE i \in 1..Len(each) :
                each[i].kind = "raise" /\ \A j \in 1..(i - 1) : each[j].kind = "return"]
    ELSE Return(Concat([i \in 1..Len(each) |-> each[i].value]))

Snippets(segs, colormap, order, rainbow, to_markdown, with_labels) ==
    Joined([i \in 1..Len(segs) |->
               Snippet(segs[i], colormap, order, rainbow, to_markdown, with_labels)])

HasOffsets(canonical) ==
    \A i \in 1..Len(canonical) : {"start", "end"} \subseteq DOMAIN canonical[i]

\* What a call of render_spans leaves: what it returns or raises, the colour map, the
\* caller's list, and what it computed on the way.
Outcome(res, colormap, raw, canonical, segs) ==
    [result |-> res, colormap |-> colormap, spans |-> raw, canon |-> canonical,
     segments |-> segs]

\* render_spans from the loop over the segments on
RenderSegments(segs, colormap, raw, canonical, rainbow, to_markdown, with_labels, order) ==
    Outcome(Snippets(segs, colormap, order, rainbow, to_markdown, with_labels),
            colormap, raw, canonical, segs)

\* render_spans from update_colormap on
RenderCanonical(txt, canonical, upd, colormap, raw, rainbow, to_markdown, with_labels, order) ==
    IF upd.kind = "raise" THEN Outcome(upd, colormap, raw, canonical, <<>>)
    ELSE IF ~HasOffsets(canonical)
         THEN Outcome(Raise("KeyError"), upd.value, raw, canonical, <<>>)
    ELSE RenderSegments(Segments(txt, canonical), upd.value, raw, canonical,
                        rainbow, to_markdown, with_labels, order)

\* render_spans from the result of standardize_spans on
RenderStandardized(txt, std, colormap, rainbow, to_markdown, with_labels, order) ==
    IF std.res.kind = "raise" THEN Outcome(std.res, colormap, std.spans, <<>>, <<>>)
    ELSE RenderCanonical(txt, std.res.value, update_colormap(colormap, std.res.value),
                         colormap, std.spans, rainbow, to_markdown, with_labels, order)

render_spans(txt, raw, colormap, rainbow, to_markdown, with_labels, order) ==
    RenderStandardized(txt, standardize_spans(raw), colormap, rainbow, to_markdown,
                       with_labels, order)

(***************************************************************************)
(* The inputs of the model.                                                *)
(***************************************************************************)
Letters == <<"a", "b", "c", "d", "e">>
BaseText(n) == [i \in 1..n |-> Letters[((i - 1) % Len(Letters)) + 1]]

LabelA == PStr(<<"A">>)
LabelB == PStr(<<"B">>)
LabelX == PStr(<<"X">>)

Direct(start, end, label) == PDict([start |-> start, end |-> end, label |-> label])
Unlabelled(start, end) == PDict([start |-> start, end |-> end])

\* the lists of length 0..n over a set
RECURSIVE ListsUpTo(_, _)
ListsUpTo(elems, n) ==
    IF n = 0 THEN {<<>>}
    ELSE LET shorter == ListsUpTo(elems, n - 1)
         IN  shorter \cup {Append(l, e) : l \in {s \in shorter : Len(s) = n - 1}, e \in elems}

\* Geometry: labelled spans at every pair of offsets, on texts shorter and longer
\* than the largest offset.  Rendering reads such a list only through sets, so the
\* lists are taken in one order, by offsets, and the first span is the one named A.
GeoSpans == {Direct(s, e, l) : s \in 0..MaxOffset, e \in 0..MaxOffset, l \in {LabelA, LabelB}}
Before(x, y) == x.d.start < y.d.start \/ (x.d.start = y.d.start /\ x.d.end <= y.d.end)
GeoLists == {l \in ListsUpTo({g \in GeoSpans : g.d.start <= g.d.end}, MaxSpans) :
                /\ \A i \in 1..(Len(l) - 1) : Before(l[i], l[i + 1])
                /\ l # <<>> => l[1].d.label = LabelA}
GeoTexts == {BaseText(n) : n \in {0, MaxOffset - 1, MaxOffset + 1}}
GeoRecords == {[text |-> t, spans |-> l] : t \in GeoTexts, l \in GeoLists}

\* Shapes: every shape of element the normalizer tells apart, at fixed offsets.
Subspan == {PDict([start |-> 0, end |-> 1]),
            PDict([start |-> 1, end |-> 3, label |-> LabelB]),
            PDict([start |-> 2, end |-> 3, label |-> PInt(5)])}
SubspanLists == ListsUpTo(Subspan, MaxSpans)
Pair == PList(<<PInt(0), PInt(2)>>)
ShapeSpans ==
    {Unlabelled(0, 2), Direct(0, 2, LabelA), Direct(0, 2, PInt(7)), Direct(3, 1, LabelA),
     PDict([start |-> 0]), PDict([label |-> LabelX]), PInt(3),
     PStr(<<>>), PStr(<<"a", "b">>), PStr(StartKey),
     PList(<<PInt(0), PInt(2), LabelA>>), PList(<<Pair, Pair, LabelX>>),
     PList(<<PStr(StartKey), PInt(2)>>),
     PDict([label |-> LabelX, subspans |-> PList(<<Pair, Pair>>)]),
     PDict([label |-> LabelX, subspans |-> PInt(2)])}
    \cup {PList(subs) : subs \in SubspanLists}
    \cup {PDict([subspans |-> PList(subs)]) : subs \in SubspanLists}
    \cup {PDict([label |-> l, subspans |-> PList(subs)]) :
            l \in {LabelX, PInt(7)}, subs \in SubspanLists}
ShapeRecords ==
    {[text |-> BaseText(3), spans |-> l] :
        l \in {<<e>> : e \in ShapeSpans} \cup {<<Unlabelled(1, 2), e>> : e \in ShapeSpans}}

\* Texts that hold the characters the markup is written in.
\* and two texts that are themselves the markup of "a" under label A.
MarkedText == MarkOpen \o colors[1] \o Alpha \o TitleOpen \o <<"A", "\"">> \o BlendClose
                 \o <<"a">> \o MarkClose
EmphasizedText == MdOpen \o <<"a", "_", "A">> \o MdClose
MarkupTexts == {<<"<">>, <<"a", "<", "b">>, <<"<", "a", ">">>, <<"a", "_", "b">>, <<"*">>,
                MarkedText, EmphasizedText}
MarkupRecords ==
    {[text |-> t, spans |-> l] : t \in MarkupTexts, l \in {<<>>, <<Direct(0, 1, LabelA)>>}}

\* "abcde" with A over [1, 3) and B over [2, 4)
ExampleRecord == [text |-> BaseText(5),
                  spans |-> <<Direct(1, 3, LabelA), Direct(2, 4, LabelB)>>]

Records == GeoRecords \cup ShapeRecords \cup MarkupRecords \cup {ExampleRecord}

\* A session: records of k unlabelled spans, which the normalizer labels "0" .. "k-1",
\* and records of labelled spans, labels out of order.
WideSpans(k) == [i \in 1..k |-> Unlabelled((i - 1) % 3, ((i - 1) % 3) + 1)]
LabelledSpans == {<<Direct(0, 2, LabelB), Direct(1, 3, LabelA)>>,
                  <<Direct(0, 1, LabelX), Direct(0, 1, LabelB), Unlabelled(2, 3)>>}
WideSizes == {0, 1, 2, MaxWide - 1, MaxWide}
SessionRecords == {[text |-> BaseText(3), spans |-> WideSpans(k)] : k \in WideSizes}
                     \cup {[text |-> BaseText(3), spans |-> l] : l \in LabelledSpans}

\* Colour lists: the palette, black and white, taken in order.
Black == <<"#", "0", "0", "0", "0", "0", "0">>
White == <<"#", "f", "f", "f", "f", "f", "f">>
Pool == <<Black, White>> \o colors
RECURSIVE Sublists(_, _)
Sublists(pool, n) ==
    IF pool = <<>> \/ n = 0 THEN {<<>>}
    ELSE Sublists(Tail(pool), n)
         \cup {<<Head(pool)>> \o l : l \in Sublists(Tail(pool), n - 1)}
ColorLists == Sublists(Pool, MaxColors) \ {<<>>}

(***************************************************************************)
(* The calls.                                                              *)
(***************************************************************************)
NoCall == [op |-> "none", rainbow |-> FALSE, to_markdown |-> FALSE, with_labels |-> FALSE]

\* Nothing has been called; the command line has set rainbow.
Init ==
    /\ text = <<>>
    /\ spans = <<>>
    /\ call \in {[NoCall EXCEPT !.rainbow = r] : r \in BOOLEAN}
    /\ canon = <<>>
    /\ segments = <<>>
    /\ result = [kind |-> "none"]
    /\ default_colormap = <<>>
    /\ used_colormap = <<>>
    /\ ncalls = 0
    /\ hexcolors = <<>>
    /\ blended = <<>>

\* the orders in which the label sets of this call may be iterated
OrdersOf(std) ==
    IF std.res.kind = "raise" \/ ~Sortable(LabelsOf(std.res.value)) THEN {<<>>}
    ELSE Orders(LabelsOf(std.res.value))
CallOrders(raw) == OrdersOf(standardize_spans(raw))

\* One call of render_spans, on its default colour map or on a new one.
Render(op, rec, fresh, rainbow, to_markdown, with_labels) ==
    \E order \in CallOrders(rec.spans) :
        \E r \in {render_spans(rec.text, rec.spans,
                               IF fresh THEN <<>> ELSE default_colormap,
                               rainbow, to_markdown, with_labels, order)} :
            /\ text' = rec.text
            /\ spans' = r.spans
            /\ call' = [op |-> op, rainbow |-> rainbow, to_markdown |-> to_markdown,
                        with_labels |-> with_labels]
            /\ canon' = r.canon
            /\ segments' = r.segments
            /\ result' = r.result
            /\ used_colormap' = r.colormap
            /\ default_colormap' = IF fresh THEN default_colormap ELSE r.colormap
            /\ ncalls' = ncalls + 1
            /\ UNCHANGED <<hexcolors, blended>>

\* spans_to_html(text, spans, rainbow)
SpansToHtml(recs) ==
    \E rec \in recs, rainbow \in BOOLEAN :
        Render("spans_to_html", rec, FALSE, rainbow, FALSE, TRUE)

\* spans_to_md(text, spans, with_labels): colormap={}
SpansToMd(recs) ==
    \E rec \in recs, with_labels \in BOOLEAN :
        Render("spans_to_md", rec, TRUE, FALSE, TRUE, with_labels)

\* render_spans(text, spans, rainbow=..., to_markdown=..., with_labels=...)
RenderSpans(recs) ==
    \E rec \in recs, rainbow \in BOOLEAN, to_markdown \in BOOLEAN, with_labels \in BOOLEAN :
        Render("render_spans", rec, FALSE, rainbow, to_markdown, with_labels)

\* colorblend(*hexcolors)
Colorblend ==
    /\ hexcolors = <<>>
    /\ \E hexs \in ColorLists :
        /\ hexcolors' = hexs
        /\ blended' = colorblend(hexs)
    /\ UNCHANGED <<text, spans, call, canon, segments, result, default_colormap,
                   used_colormap, ncalls>>

\* One turn of the loop of main: spans_to_html(d[args.text], d[args.spans], rainbow=args.rainbow)
main ==
    /\ ncalls < MaxCalls
    /\ \E rec \in SessionRecords :
        Render("spans_to_html", rec, FALSE, call.rainbow, FALSE, TRUE)

\* The program: the records of the input, one after the other, on one colour map.
Next == main

Spec == Init /\ [][Next]_vars

\* Nothing has been called.
InitCall == Init /\ call = NoCall

\* One call, on every record of the model.
NextRender ==
    \/ ncalls = 0 /\ SpansToHtml(Records)
    \/ ncalls = 0 /\ SpansToMd(Records)
    \/ ncalls = 0 /\ RenderSpans(Records)

SpecRender == InitCall /\ [][NextRender]_vars

\* Calls of the colour blender.
NextBlend == Colorblend

SpecBlend == InitCall /\ [][NextBlend]_vars


(***************************************************************************)
(* Properties.                                                             *)
(***************************************************************************)
Called == call.op # "none"
Returned == Called /\ result.kind = "return"
Raised == Called /\ result.kind = "raise"

\* 0 <= start <= end <= len(text) for every canonical span
InRange(canonical, txt) ==
    \A i \in 1..Len(canonical) :
        /\ 0 <= canonical[i].start
        /\ canonical[i].start <= canonical[i].end
        /\ canonical[i].end <= Len(txt)

\* C1: for in-range spans the segments are the consecutive pairs of the boundary set
\* {0, len(text)} plus every start and end, they do not overlap, and their slices,
\* joined in order, are the text.
C1_SegmentsPartitionText ==
    (Returned /\ InRange(canon, text)) =>
        /\ {segments[i].start : i \in 1..Len(segments)}
              \cup {segments[i].end : i \in 1..Len(segments)}
              \cup {0, Len(text)}
           = {0, Len(text)} \cup {canon[i].start : i \in 1..Len(canon)}
                            \cup {canon[i].end : i \in 1..Len(canon)}
        /\ \A i \in 1..Len(segments) :
              /\ segments[i].start < segments[i].end
              /\ i < Len(segments) => segments[i].end = segments[i + 1].start
        /\ \A i, j \in 1..Len(segments) :
              i < j => segments[i].end <= segments[j].start
        /\ Concat([i \in 1..Len(segments) |-> segments[i].slice]) = text

\* overlapping in-range spans cut a text into at least three segments
C1_Witness ==
    /\ Returned /\ InRange(canon, text)
    /\ Len(segments) >= 3
    /\ \E i \in 1..Len(segments) : Cardinality(segments[i].labels) = 2
    /\ \E i \in 1..Len(segments) : segments[i].labels = {}

\* the markup taken out of an HTML result: re.sub('<[^>]*>', '', s)
RECURSIVE StripTags(_, _, _)
StripTags(s, i, acc) ==
    IF i > Len(s) THEN acc
    ELSE IF s[i] = "<" /\ \E j \in (i + 1)..Len(s) : s[j] = ">"
    THEN StripTags(s, 1 + CHOOSE j \in (i + 1)..Len(s) :
                            s[j] = ">" /\ \A k \in (i + 1)..(j - 1) : s[k] # ">",
                   acc)
    ELSE StripTags(s, i + 1, Append(acc, s[i]))

LastUnderscore(s) ==
    IF \E i \in 1..Len(s) : s[i] = "_"
    THEN CHOOSE i \in 1..Len(s) : s[i] = "_" /\ \A k \in (i + 1)..Len(s) : s[k] # "_"
    ELSE Len(s) + 1

\* the markup taken out of a Markdown result: the emphasis markers and, with labels,
\* the label string from its underscore on
RECURSIVE StripMd(_, _, _, _)
StripMd(s, with_labels, i, acc) ==
    IF i > Len(s) THEN acc
    ELSE IF /\ SubSeq(s, i, i + Len(MdOpen) - 1) = MdOpen
            /\ \E j \in (i + Len(MdOpen))..Len(s) : SubSeq(s, j, j + Len(MdClose) - 1) = MdClose
    THEN LET j == CHOOSE j \in (i + Len(MdOpen))..Len(s) :
                    /\ SubSeq(s, j, j + Len(MdClose) - 1) = MdClose
                    /\ \A k \in (i + Len(MdOpen))..(j - 1) :
                          SubSeq(s, k, k + Len(MdClose) - 1) # MdClose
             inner == SubSeq(s, i + Len(MdOpen), j - 1)
             kept == IF with_labels THEN SubSeq(inner, 1, LastUnderscore(inner) - 1)
                     ELSE inner
         IN  StripMd(s, with_labels, j + Len(MdClose), acc \o kept)
    ELSE StripMd(s, with_labels, i + 1, Append(acc, s[i]))

Stripped ==
    IF call.to_markdown THEN StripMd(result.value, call.with_labels, 1, <<>>)
    ELSE StripTags(result.value, 1, <<>>)

\* C2: rendering in-range spans and taking the markup out again gives the text back,
\* in HTML blend mode, HTML rainbow mode and Markdown, with and without labels.
C2_RoundTrip ==
    (Returned /\ InRange(canon, text)) => Stripped = text

\* the lists that hold the spans of c in another order: every one for up to four
\* spans, the reverse beyond
Reorderings(c) ==
    IF Len(c) <= 4
    THEN {[i \in 1..Len(c) |-> c[p[i]]] :
            p \in {q \in [1..Len(c) -> 1..Len(c)] : \A i, j \in 1..Len(c) : q[i] = q[j] => i = j}}
    ELSE {[i \in 1..Len(c) |-> c[Len(c) + 1 - i]]}

\* C3: update_colormap leaves the map it started from in the same state whatever
\* the order of the canonical spans.
C3_OrderIndependent ==
    [][ncalls' = ncalls + 1 =>
          \A p \in Reorderings(canon') :
              update_colormap(default_colormap, p) = Return(default_colormap')]_vars

\* a call has added two labels or more to a map that held some
C3_Witness ==
    /\ ncalls >= 2
    /\ [i \in 1..Len(canon) |-> canon[i].label] = <<LabelB, LabelA>>
    /\ [i \in 1..Len(default_colormap) |-> default_colormap[i].key]
          = <<PStr(<<"0">>), LabelA, LabelB>>

\* the number of labels of a set that sort before l
Rank(l, labs) == Cardinality({x \in labs : StrLess(x.s, l.s)})

\* C4: update_colormap gives each label new to the map, taken in lexicographic
\* order, the palette colour at (size of the map at that moment) mod 10, keeps what
\* the map held, and leaves every label of the spans with an entry.
C4_SortedAssignment ==
    [][ncalls' = ncalls + 1 =>
          LET new == LabelsOf(canon') \ Keys(default_colormap)
          IN  /\ Len(colors) = 10
              /\ Len(default_colormap') = Len(default_colormap) + Cardinality(new)
              /\ SubSeq(default_colormap', 1, Len(default_colormap)) = default_colormap
              /\ \A l \in new :
                    LET size == Len(default_colormap) + Rank(l, new)
                    IN  /\ default_colormap'[size + 1].key = l
                        /\ default_colormap'[size + 1].value = colors[(size % 10) + 1]
              /\ LabelsOf(canon') \subseteq Keys(default_colormap')]_vars

\* a call has taken the map past the end of the palette, "10" sorting before "2"
C4_Witness ==
    /\ Called
    /\ Len(default_colormap) > Len(colors)
    /\ \E i \in 1..(Len(default_colormap) - 1) :
          /\ default_colormap[i].key = PStr(<<"1", "0">>)
          /\ default_colormap[i + 1].key = PStr(<<"2">>)
    /\ default_colormap[Len(colors) + 1].value = colors[1]

\* C5: over the calls that share the colour map, an entry is never removed and its
\* colour never changes.
C5_AppendOnly ==
    [][\A k \in Keys(default_colormap) :
          /\ k \in Keys(default_colormap')
          /\ Lookup(default_colormap', k) = Lookup(default_colormap, k)]_vars

\* a later record has brought new labels into a map that keeps the labels of an
\* earlier record which this record does not hold
C5_Witness ==
    /\ ncalls >= 3
    /\ Keys(default_colormap) \ LabelsOf(canon) # {}
    /\ \E i \in 1..Len(default_colormap) :
          /\ default_colormap[i].key \in LabelsOf(canon)
          /\ \E j \in 1..(i - 1) : default_colormap[j].key \notin LabelsOf(canon)

\* a span element the normalizer has no way to read: a number, a mapping with
\* neither start nor subspans, or a sequence (the element itself or its subspans)
\* that holds something other than a mapping
HoldsNonDict(x) ==
    \/ x.ty \notin {"list", "str"}
    \/ \E i \in 1..Len(Elements(x)) : Elements(x)[i].ty # "dict"
Unreadable(e) ==
    \/ e.ty = "int"
    \/ e.ty = "dict" /\ "start" \notin DOMAIN e.d /\ "subspans" \notin DOMAIN e.d
    \/ e.ty = "dict" /\ "start" \notin DOMAIN e.d /\ "subspans" \in DOMAIN e.d
         /\ HoldsNonDict(e.d.subspans)
    \/ e.ty \in {"list", "str"} /\ HoldsNonDict(e)

BeyondText == \E i \in 1..Len(canon) :
                 /\ {"start", "end"} \subseteq DOMAIN canon[i]
                 /\ canon[i].start > Len(text) \/ canon[i].end > Len(text)

DirectOnly ==
    \A i \in 1..Len(spans) :
        /\ spans[i].ty = "dict"
        /\ {"start", "end", "label"} \subseteq DOMAIN spans[i].d
        /\ spans[i].d.label.ty = "str"
C6_WitnessBeyond ==
    /\ Returned /\ DirectOnly /\ BeyondText

\* the labels the rule of the normalizer gives: a span's own label, else its
\* parent's, else the position of the element, each as a string
ExpectedOf(n, e) ==
    IF e.ty = "dict" /\ "start" \in DOMAIN e.d
    THEN <<Str(Get(e.d, "label", PInt(n)))>>
    ELSE LET subs == IF e.ty = "dict" THEN Elements(e.d.subspans) ELSE Elements(e)
             parent == IF e.ty = "dict" THEN Get(e.d, "label", PInt(n)) ELSE PInt(n)
         IN  [k \in 1..Len(subs) |-> Str(Get(subs[k].d, "label", parent))]
ExpectedLabels(raw) == Concat([k \in 1..Len(raw) |-> ExpectedOf(k - 1, raw[k])])

\* C7: every canonical span carries a string label, its own or its parent's or the
\* position of its element, also when the label was given as a number, one span
\* for each subspan.
C7_StringLabels ==
    (Called /\ \A i \in 1..Len(spans) : ~Unreadable(spans[i])) =>
        /\ \A i \in 1..Len(canon) : canon[i].label.ty = "str"
        /\ [i \in 1..Len(canon) |-> canon[i].label] = ExpectedLabels(spans)

\* a span reaches into a segment without holding all of it
Overlaps(span, seg) == Max(span.start, seg.start) < Min(span.end, seg.end)
Contains(span, seg) == span.start <= seg.start /\ span.end >= seg.end

\* C8: a span holds a segment whole or shares no character with it, so the labels
\* found by containment are the labels of the spans that overlap the segment.
C8_ContainmentIsOverlap ==
    (Called /\ segments # <<>>) =>
        \A k \in 1..Len(segments) :
            /\ \A i \in 1..Len(canon) :
                  Contains(canon[i], segments[k]) \/ ~Overlaps(canon[i], segments[k])
            /\ segments[k].labels =
                  {canon[i].label : i \in {j \in 1..Len(canon) :
                                              Overlaps(canon[j], segments[k])}}

\* "abcde" with A over [1, 3) and B over [2, 4): {}, {A}, {A, B}, {B}, {}
C8_Witness ==
    /\ Returned
    /\ text = BaseText(5)
    /\ [i \in 1..Len(segments) |-> <<segments[i].start, segments[i].end, segments[i].labels>>]
       = << <<0, 1, {}>>, <<1, 2, {LabelA}>>, <<2, 3, {LabelA, LabelB}>>,
            <<3, 4, {LabelB}>>, <<4, 5, {}>> >>

\* the mean of a channel, rounded half up
RECURSIVE Sum(_)
Sum(ns) == IF ns = <<>> THEN 0 ELSE Head(ns) + Sum(Tail(ns))
MeanHalfUp(ns) == Min(255, Max(0, (2 * Sum(ns) + Len(ns)) \div (2 * Len(ns))))

\* C9: colorblend with default weights returns, channel by channel, the mean of the
\* colours rounded half up, as two hex digits; a single colour comes back unchanged
\* and black with white gives #808080.
C9_MeanHalfUp ==
    hexcolors # <<>> =>
        blended = rgb_to_hex([c \in 1..3 |->
                     MeanHalfUp([i \in 1..Len(hexcolors) |-> hex_to_rgb(hexcolors[i])[c]])])

\* C10: the i-th label put into the map, counted from 0, holds palette colour
\* i mod 10; up to ten entries no two labels share a colour, and two labels share
\* one only if their ranks differ by a multiple of 10.
C10_RankDecidesColour ==
    /\ \A i \in 1..Len(default_colormap) :
          default_colormap[i].value = colors[((i - 1) % 10) + 1]
    /\ \A i, j \in 1..Len(default_colormap) :
          i # j => default_colormap[i].key # default_colormap[j].key
    /\ Len(default_colormap) <= 10 =>
          \A i, j \in 1..Len(default_colormap) :
              i # j => default_colormap[i].value # default_colormap[j].value
    /\ \A i, j \in 1..Len(default_colormap) :
          default_colormap[i].value = default_colormap[j].value => (i - j) % 10 = 0

\* several calls have filled the map past the palette, and the eleventh label has
\* the colour of the first
C10_Witness ==
    /\ ncalls >= 2
    /\ Len(default_colormap) = 11
    /\ Len(canon) < 11
    /\ default_colormap[11].value = default_colormap[1].value

====
